---- MODULE Spec2Model ----
(***************************************************************************)
(* Model of the document router of the PDF-to-audiobook application:       *)
(* documentRouter.create / delete / generateAudioBook over the ledger      *)
(* tables documents, pages and audioFiles                                  *)
(* (src/src/server/api/routers/document.ts).                                *)
(*                                                                         *)
(* Every `await` of a handler is a step of its own, so that the calls of   *)
(* concurrent requests interleave exactly where the event loop lets them.  *)
(* Code that runs synchronously between two awaits is part of one step.    *)
(***************************************************************************)
EXTENDS Integers, Sequences, FiniteSets, TLC

\* ------------------------------------------------------------------ bounds
\* Number of router calls made in a behaviour.
MaxCalls == 2
\* Largest number of pages the extractor returns for a PDF.
MaxPages == 2
\* Largest value of the wall clock (Date.now(), created_at).
MaxClock == 1
\* Number of dispatching generateAudioBook calls made in a behaviour.
MaxTrigCalls == 1

CallIds == 1..MaxCalls
Users == {"u1", "u2"}
\* The PDF of n pages: its pages have text, but for the last page of a
\* PDF of several pages, which is empty.
Pdf(n) == [i \in 1..n |-> IF i = n /\ n > 1 THEN "" ELSE "text"]
\* What the extractor can return.
Pdfs == {Pdf(n) : n \in 0..MaxPages}
\* Ids a request may name: the seeded document and its pages, those the
\* calls of a behaviour can add, and so always some the ledger does not hold.
DocIdInputs == 1..2
PageIdInputs == 1..(MaxPages + 1)

VARIABLES
  documents,   \* rows of table documents: [id, createdById, createdAt]
  pages,       \* rows of table pages: [id, documentId, pageNumber, content]
  audioFiles,  \* rows of table audioFiles: [id, pageId, fileName]
  objects,     \* the object store: [key, by], by = <<call, page id>> of the writer
  nextId,      \* the serial id counters of the three tables
  now,         \* the latest reading of the wall clock
  calls,       \* the router calls, by call id
  jobs         \* the runs of generateAudioTask, by run id (the index)

vars == <<documents, pages, audioFiles, objects, nextId, now, calls, jobs>>

ledger == <<documents, pages, audioFiles, objects, nextId>>

Idle == [kind |-> "idle"]

\* ------------------------------------------------------------ initial state
\* The ledger outlives the server process, so a run starts from any ledger
\* earlier runs can have left: the empty one, or one document of two pages
\* whose first page has been narrated once.  The second is what a create
\* and a generateAudioBook call leave behind from the first: TLC reaches
\* SeedReached under SpecFromEmpty.
EmptyLedger ==
  /\ documents = {}
  /\ pages = {}
  /\ audioFiles = {}
  /\ objects = {}
  /\ nextId = [doc |-> 1, page |-> 1, audio |-> 1]

SeededLedger ==
  /\ documents = {[id |-> 1, createdById |-> "u1", createdAt |-> 0]}
  /\ pages = {[id |-> i, documentId |-> 1, pageNumber |-> i,
               content |-> Pdf(2)[i]] : i \in 1..2}
  /\ audioFiles = {[id |-> 1, pageId |-> 1, fileName |-> <<1, 1, 0>>]}
  /\ objects = {[key |-> <<1, 1, 0>>, by |-> <<0, 1>>]}
  /\ nextId = [doc |-> 2, page |-> 3, audio |-> 2]

NoCalls ==
  /\ now = 0
  /\ calls = [c \in CallIds |-> Idle]
  /\ jobs = <<>>

Init == (EmptyLedger \/ SeededLedger) /\ NoCalls

\* Calls are numbered in the order they are made.
CanStart(c) ==
  /\ calls[c].kind = "idle"
  /\ \A d \in CallIds : d < c => calls[d].kind # "idle"

\* A reading t of the wall clock: it never runs backwards.
ClockReads(t) == t \in now..MaxClock

\* ---------------------------------------------------- documentRouter.create
\* getPdfContent: page i of the extraction carries number i (index + 1).
getPdfContent(pdf) ==
  [i \in 1..Len(pdf) |-> [number |-> i, content |-> pdf[i]]]

\* The request arrives; fetch and getPdfContent succeed.
CreateExtract(c, u, pdf) ==
  /\ CanStart(c)
  /\ calls' = [calls EXCEPT ![c] =
       [kind |-> "create", user |-> u, pc |-> "insertDoc",
        pdfPages |-> getPdfContent(pdf), docId |-> 0, ins |-> <<>>]]
  /\ UNCHANGED <<ledger, now, jobs>>

\* The request arrives; the API key is missing, the fetch fails or
\* getPdfContent throws.
CreateExtractFail(c, u) ==
  /\ CanStart(c)
  /\ calls' = [calls EXCEPT ![c] =
       [kind |-> "create", user |-> u, pc |-> "failed",
        pdfPages |-> <<>>, docId |-> 0, ins |-> <<>>]]
  /\ UNCHANGED <<ledger, now, jobs>>

\* What the handler does on Promise.all over the page inserts: one rejected
\* -> throw, all fulfilled -> return, else it stays suspended.
CreateOutcome(ins) ==
  IF \E i \in DOMAIN ins : ins[i] = "failed" THEN "failed"
  ELSE IF \A i \in DOMAIN ins : ins[i] = "ok" THEN "returned"
  ELSE "pages"

\* insert(documents) succeeds; pdfPages.map(async ...) then issues every page
\* insert before the handler suspends on Promise.all.
CreateInsertDoc(c, t) ==
  /\ calls[c].kind = "create" /\ calls[c].pc = "insertDoc"
  /\ ClockReads(t)
  /\ LET id == nextId.doc
         ins == [i \in 1..Len(calls[c].pdfPages) |-> "pending"]
     IN /\ documents' = documents \cup
             {[id |-> id, createdById |-> calls[c].user, createdAt |-> t]}
        /\ nextId' = [nextId EXCEPT !.doc = id + 1]
        /\ calls' = [calls EXCEPT ![c].docId = id, ![c].ins = ins,
                                  ![c].pc = CreateOutcome(ins)]
  /\ now' = t
  /\ UNCHANGED <<pages, audioFiles, objects, jobs>>

\* insert(documents) throws, or returns no row.
CreateInsertDocFail(c) ==
  /\ calls[c].kind = "create" /\ calls[c].pc = "insertDoc"
  /\ calls' = [calls EXCEPT ![c].pc = "failed"]
  /\ UNCHANGED <<ledger, now, jobs>>

\* The pc of the handler after a page insert settled.  A handler that
\* already threw (Promise.all rejected on an earlier insert) stays failed.
CreateAfterInsert(pc, ins) ==
  IF pc = "pages" THEN CreateOutcome(ins) ELSE pc

\* CreateInsertPage with the row numbered by the order in which the inserts
\* complete instead of by page.number.
CreateInsertPageByCompletion(c, i) ==
  /\ calls[c].kind = "create"
  /\ i \in DOMAIN calls[c].ins /\ calls[c].ins[i] = "pending"
  /\ LET p == calls[c].pdfPages[i]
         done == Cardinality({j \in DOMAIN calls[c].ins :
                                calls[c].ins[j] = "ok"})
         ins == [calls[c].ins EXCEPT ![i] = "ok"]
     IN /\ pages' = pages \cup
             {[id |-> nextId.page, documentId |-> calls[c].docId,
               pageNumber |-> done + 1, content |-> p.content]}
        /\ nextId' = [nextId EXCEPT !.page = nextId.page + 1]
        /\ calls' = [calls EXCEPT ![c].ins = ins,
                       ![c].pc = CreateAfterInsert(calls[c].pc, ins)]
  /\ UNCHANGED <<documents, audioFiles, objects, now, jobs>>

\* One page insert of the Promise.all succeeds.  It may do so after the
\* handler has thrown: a rejected Promise.all does not cancel its siblings.
CreateInsertPage(c, i) ==
  /\ calls[c].kind = "create"
  /\ i \in DOMAIN calls[c].ins /\ calls[c].ins[i] = "pending"
  /\ LET p == calls[c].pdfPages[i]
         ins == [calls[c].ins EXCEPT ![i] = "ok"]
     IN /\ pages' = pages \cup
             {[id |-> nextId.page, documentId |-> calls[c].docId,
               pageNumber |-> p.number, content |-> p.content]}
        /\ nextId' = [nextId EXCEPT !.page = nextId.page + 1]
        /\ calls' = [calls EXCEPT ![c].ins = ins,
                       ![c].pc = CreateAfterInsert(calls[c].pc, ins)]
  /\ UNCHANGED <<documents, audioFiles, objects, now, jobs>>

\* One page insert throws (or returns no row): the catch rethrows, the
\* Promise.all rejects and the handler throws "Failed to create document".
\* Nothing that was inserted is removed.
CreateInsertPageFail(c, i) ==
  /\ calls[c].kind = "create"
  /\ i \in DOMAIN calls[c].ins /\ calls[c].ins[i] = "pending"
  /\ LET ins == [calls[c].ins EXCEPT ![i] = "failed"]
     IN calls' = [calls EXCEPT ![c].ins = ins,
                    ![c].pc = CreateAfterInsert(calls[c].pc, ins)]
  /\ UNCHANGED <<ledger, now, jobs>>

CreateStarts ==
  \E c \in CallIds, u \in Users :
    \/ \E pdf \in Pdfs : CreateExtract(c, u, pdf)
    \/ CreateExtractFail(c, u)

CreateSteps ==
  \E c \in CallIds :
    \/ \E t \in 0..MaxClock : CreateInsertDoc(c, t)
    \/ CreateInsertDocFail(c)
    \/ \E i \in 1..MaxPages : CreateInsertPage(c, i)
    \/ \E i \in 1..MaxPages : CreateInsertPageFail(c, i)

\* ---------------------------------------------------- documentRouter.delete
\* What `await ctx.db.delete(t).where(w)` resolves to when it does not throw:
\* the driver's result object, which carries the number of rows it removed.
DeleteResult(n) == [type |-> "object", rowCount |-> n]

\* JavaScript's `!v` for the values a query can resolve to: only undefined
\* and null are falsy; a result object is truthy whatever its rowCount.
Falsy(v) == v.type \in {"undefined", "null"}

\* Rows a delete step has not run on.
NotRun == [type |-> "none", rowCount |-> 0]

\* findFirst({where: eq(documents.id, id), with: {pages: {with: audioFiles}}}):
\* the ids of the pages nested in the document row, [] when there is no row.
associatedPagesId(id) ==
  IF \E d \in documents : d.id = id
  THEN {p.id : p \in {q \in pages : q.documentId = id}}
  ELSE {}

\* DeleteFind as the first version of the handler had it: no audio step.
DeleteFindNoAudioStep(c, user, id) ==
  /\ CanStart(c)
  /\ LET assoc == associatedPagesId(id)
     IN calls' = [calls EXCEPT ![c] =
          [kind |-> "delete", user |-> user, id |-> id, pc |-> "pages",
           found |-> \E d \in documents : d.id = id,
           assoc |-> assoc,
           seenAudio |-> {a.id : a \in {b \in audioFiles : b.pageId \in assoc}},
           deletedAudioFiles |-> NotRun, deletedPages |-> NotRun,
           deletedDocument |-> NotRun]]
  /\ UNCHANGED <<ledger, now, jobs>>

\* The request of session user `user` arrives and findFirst resolves.  The
\* handler sets hasPermission = true and never reads the session.  With no
\* page found it skips the audio step.
DeleteFind(c, user, id) ==
  /\ CanStart(c)
  /\ LET assoc == associatedPagesId(id)
     IN calls' = [calls EXCEPT ![c] =
          [kind |-> "delete", user |-> user, id |-> id,
           pc |-> IF assoc # {} THEN "audio" ELSE "pages",
           found |-> \E d \in documents : d.id = id,
           assoc |-> assoc,
           seenAudio |-> {a.id : a \in {b \in audioFiles : b.pageId \in assoc}},
           deletedAudioFiles |-> NotRun, deletedPages |-> NotRun,
           deletedDocument |-> NotRun]]
  /\ UNCHANGED <<ledger, now, jobs>>

\* The request arrives and findFirst throws.
DeleteFindFail(c, user, id) ==
  /\ CanStart(c)
  /\ calls' = [calls EXCEPT ![c] =
       [kind |-> "delete", user |-> user, id |-> id, pc |-> "failed",
        found |-> FALSE, assoc |-> {}, seenAudio |-> {},
        deletedAudioFiles |-> NotRun, deletedPages |-> NotRun,
        deletedDocument |-> NotRun]]
  /\ UNCHANGED <<ledger, now, jobs>>

\* DeleteAudio without its where clause: every audio file row goes.
DeleteAudioAll(c) ==
  /\ calls[c].kind = "delete" /\ calls[c].pc = "audio"
  /\ LET gone == audioFiles
         res == DeleteResult(Cardinality(gone))
     IN /\ audioFiles' = audioFiles \ gone
        /\ calls' = [calls EXCEPT ![c].deletedAudioFiles = res,
                       ![c].pc = IF Falsy(res) THEN "failed" ELSE "pages"]
  /\ UNCHANGED <<documents, pages, objects, nextId, now, jobs>>

\* delete(audioFiles).where(inArray(audioFiles.pageId, associatedPagesId)),
\* then `if (!deletedAudioFiles) throw`.
DeleteAudio(c) ==
  /\ calls[c].kind = "delete" /\ calls[c].pc = "audio"
  /\ LET gone == {a \in audioFiles : a.pageId \in calls[c].assoc}
         res == DeleteResult(Cardinality(gone))
     IN /\ audioFiles' = audioFiles \ gone
        /\ calls' = [calls EXCEPT ![c].deletedAudioFiles = res,
                       ![c].pc = IF Falsy(res) THEN "failed" ELSE "pages"]
  /\ UNCHANGED <<documents, pages, objects, nextId, now, jobs>>

\* DeletePages with the rows selected by pages.id instead of
\* pages.documentId.
DeletePagesById(c) ==
  /\ calls[c].kind = "delete" /\ calls[c].pc = "pages"
  /\ LET gone == {p \in pages : p.id = calls[c].id}
         res == DeleteResult(Cardinality(gone))
     IN /\ pages' = pages \ gone
        /\ calls' = [calls EXCEPT ![c].deletedPages = res,
                       ![c].pc = IF Falsy(res) THEN "failed" ELSE "doc"]
  /\ UNCHANGED <<documents, audioFiles, objects, nextId, now, jobs>>

\* delete(pages).where(eq(pages.documentId, id)), then
\* `if (!deletedPages) throw`.
DeletePages(c) ==
  /\ calls[c].kind = "delete" /\ calls[c].pc = "pages"
  /\ LET gone == {p \in pages : p.documentId = calls[c].id}
         res == DeleteResult(Cardinality(gone))
     IN /\ pages' = pages \ gone
        /\ calls' = [calls EXCEPT ![c].deletedPages = res,
                       ![c].pc = IF Falsy(res) THEN "failed" ELSE "doc"]
  /\ UNCHANGED <<documents, audioFiles, objects, nextId, now, jobs>>

\* delete(documents).where(eq(documents.id, id)), then
\* `if (!deletedDocument) throw`, else return deletedDocument.
DeleteDocument(c) ==
  /\ calls[c].kind = "delete" /\ calls[c].pc = "doc"
  /\ LET gone == {d \in documents : d.id = calls[c].id}
         res == DeleteResult(Cardinality(gone))
     IN /\ documents' = documents \ gone
        /\ calls' = [calls EXCEPT ![c].deletedDocument = res,
                       ![c].pc = IF Falsy(res) THEN "failed" ELSE "returned"]
  /\ UNCHANGED <<pages, audioFiles, objects, nextId, now, jobs>>

\* The delete the handler is suspended on throws (the database is
\* unreachable, a constraint refuses it): the catch rethrows.
DeleteThrows(c) ==
  /\ calls[c].kind = "delete" /\ calls[c].pc \in {"audio", "pages", "doc"}
  /\ calls' = [calls EXCEPT ![c].pc = "failed"]
  /\ UNCHANGED <<ledger, now, jobs>>

DeleteStarts ==
  \E c \in CallIds, u \in Users, id \in DocIdInputs :
    \/ DeleteFind(c, u, id)
    \/ DeleteFindFail(c, u, id)

DeleteSteps ==
  \E c \in CallIds :
    \/ DeleteAudio(c)
    \/ DeletePages(c)
    \/ DeleteDocument(c)
    \/ DeleteThrows(c)

\* ------------------------------------- documentRouter.generateAudioBook
\* The rows of S ordered by id (the order the query returns them in).
RECURSIVE SortById(_)
SortById(S) ==
  IF S = {} THEN <<>>
  ELSE LET m == CHOOSE x \in S : \A y \in S : x.id <= y.id
       IN <<m>> \o SortById(S \ {m})

\* findMany({where: eq(pages.documentId, documentId)}): every page row of
\* the document, listed or not.
pagesOfDocument(documentId, pageIds) ==
  SortById({p \in pages : p.documentId = documentId})

\* findMany({where: inArray(pages.id, pageIds)}): the page rows whose id is
\* one of pageIds.  documentId takes no part in the query.
pagesToRegenerate(documentId, pageIds) ==
  SortById({p \in pages : p.id \in pageIds})

\* `${page.documentId}-${page.pageNumber}-${Date.now()}.mp3`: three decimal
\* numbers between dashes, so the name is the triple.
FileName(page, t) == <<page.documentId, page.pageNumber, t>>

\* A per-page job that neither returned nor threw.
InFlightStates == {"synth", "store", "insert"}

\* What the handler does on Promise.all over the per-page jobs: each job
\* catches its own error, so the Promise.all fulfils once all have ended.
GenOutcome(run) ==
  IF \A i \in DOMAIN run : run[i].st \notin InFlightStates
  THEN "returned" ELSE "running"

\* The request arrives, findMany resolves and pagesToRegenerate.map(async ...)
\* starts the job of every page found, each up to its one call of
\* elevenlabs.generate (attempt 1), before the handler suspends on
\* Promise.all.
GenLoad(c, documentId, pageIds) ==
  /\ CanStart(c)
  /\ LET found == pagesToRegenerate(documentId, pageIds)
         run == [i \in DOMAIN found |->
                   [st |-> "synth", attempt |-> 1, failedAt |-> "none",
                    fileName |-> <<>>, audioId |-> 0]]
     IN calls' = [calls EXCEPT ![c] =
          [kind |-> "gen", documentId |-> documentId, pageIds |-> pageIds,
           pc |-> GenOutcome(run), found |-> found, run |-> run]]
  /\ UNCHANGED <<ledger, now, jobs>>

\* The request arrives; the API key is missing or findMany throws (it is
\* outside every try): the call fails without a result list.
GenLoadFail(c, documentId, pageIds) ==
  /\ CanStart(c)
  /\ calls' = [calls EXCEPT ![c] =
       [kind |-> "gen", documentId |-> documentId, pageIds |-> pageIds,
        pc |-> "failed", found |-> <<>>, run |-> <<>>]]
  /\ UNCHANGED <<ledger, now, jobs>>

GenAt(c, i, st) ==
  /\ calls[c].kind = "gen"
  /\ i \in DOMAIN calls[c].run
  /\ calls[c].run[i].st = st

\* The call with job i moved on by `r`.
GenMove(c, i, r) ==
  LET run == [calls[c].run EXCEPT ![i] = r]
  IN [calls EXCEPT ![c].run = run, ![c].pc = GenOutcome(run)]

\* generateAudio(page.content, voice) returns the buffer; the job then reads
\* the clock for the file name and calls saveAudioFile.
GenSynth(c, i, t) ==
  /\ GenAt(c, i, "synth")
  /\ ClockReads(t)
  /\ calls' = GenMove(c, i, [calls[c].run[i] EXCEPT !.st = "store",
                               !.fileName = FileName(calls[c].found[i], t)])
  /\ now' = t
  /\ UNCHANGED <<ledger, jobs>>

\* GenStore with the ledger row written together with the upload, before
\* the insert step has run.
GenStoreRecordsRow(c, i) ==
  /\ GenAt(c, i, "store")
  /\ LET key == calls[c].run[i].fileName
     IN objects' = {o \in objects : o.key # key} \cup
                   {[key |-> key, by |-> <<c, calls[c].found[i].id>>]}
  /\ audioFiles' = audioFiles \cup
       {[id |-> nextId.audio, pageId |-> calls[c].found[i].id,
         fileName |-> calls[c].run[i].fileName]}
  /\ nextId' = [nextId EXCEPT !.audio = nextId.audio + 1]
  /\ calls' = GenMove(c, i, [calls[c].run[i] EXCEPT !.st = "insert"])
  /\ UNCHANGED <<documents, pages, now, jobs>>

\* saveAudioFile: the upload to key audio/<fileName> is done (an object
\* already under that key is replaced); the job then issues the insert.
GenStore(c, i) ==
  /\ GenAt(c, i, "store")
  /\ LET key == calls[c].run[i].fileName
     IN objects' = {o \in objects : o.key # key} \cup
                   {[key |-> key, by |-> <<c, calls[c].found[i].id>>]}
  /\ calls' = GenMove(c, i, [calls[c].run[i] EXCEPT !.st = "insert"])
  /\ UNCHANGED <<documents, pages, audioFiles, nextId, now, jobs>>

\* The audio_files table: its layout is (id, page_id, file_name, file_path,
\* created_at) with no constraint on page_id, references being kept by the
\* order of the deletes.  An insert is accepted whatever its page_id.
audioFilesAccepts(pageId) == TRUE

\* GenInsert preceded by delete(audioFiles).where(eq(audioFiles.pageId,
\* page.id)): the page's earlier rows go before the new row is inserted.
GenInsertReplaces(c, i) ==
  /\ GenAt(c, i, "insert")
  /\ audioFilesAccepts(calls[c].found[i].id)
  /\ audioFiles' =
       {a \in audioFiles : a.pageId # calls[c].found[i].id} \cup
       {[id |-> nextId.audio, pageId |-> calls[c].found[i].id,
         fileName |-> calls[c].run[i].fileName]}
  /\ nextId' = [nextId EXCEPT !.audio = nextId.audio + 1]
  /\ calls' = GenMove(c, i, [calls[c].run[i] EXCEPT !.st = "ok",
                               !.audioId = nextId.audio])
  /\ UNCHANGED <<documents, pages, objects, now, jobs>>

\* insert(audioFiles) returns the row; the job returns
\* {pageId, success: true, audioFile}.
GenInsert(c, i) ==
  /\ GenAt(c, i, "insert")
  /\ audioFilesAccepts(calls[c].found[i].id)
  /\ audioFiles' = audioFiles \cup
       {[id |-> nextId.audio, pageId |-> calls[c].found[i].id,
         fileName |-> calls[c].run[i].fileName]}
  /\ nextId' = [nextId EXCEPT !.audio = nextId.audio + 1]
  /\ calls' = GenMove(c, i, [calls[c].run[i] EXCEPT !.st = "ok",
                               !.audioId = nextId.audio])
  /\ UNCHANGED <<documents, pages, objects, now, jobs>>

\* GenThrows without the per-page catch: the error of job i ends every job
\* of the batch that is still in flight.
GenThrowsAbortsBatch(c, i) ==
  /\ calls[c].kind = "gen"
  /\ i \in DOMAIN calls[c].run
  /\ calls[c].run[i].st \in InFlightStates
  /\ LET run == [j \in DOMAIN calls[c].run |->
                   IF calls[c].run[j].st \in InFlightStates
                   THEN [calls[c].run[j] EXCEPT !.st = "failed",
                           !.failedAt = calls[c].run[j].st]
                   ELSE calls[c].run[j]]
     IN calls' = [calls EXCEPT ![c].run = run, ![c].pc = GenOutcome(run)]
  /\ UNCHANGED <<ledger, now, jobs>>

\* GenThrows with the coordinator launching the page's job a second time
\* when its first run fails.
GenThrowsRelaunches(c, i) ==
  /\ calls[c].kind = "gen"
  /\ i \in DOMAIN calls[c].run
  /\ calls[c].run[i].st \in InFlightStates
  /\ calls' = GenMove(c, i,
       IF calls[c].run[i].attempt = 1
       THEN [calls[c].run[i] EXCEPT !.st = "synth",
                                    !.attempt = calls[c].run[i].attempt + 1]
       ELSE [calls[c].run[i] EXCEPT !.st = "failed",
                                    !.failedAt = calls[c].run[i].st])
  /\ UNCHANGED <<ledger, now, jobs>>

\* The step job i is suspended on (synthesis, upload or insert) throws: the
\* job's catch returns {pageId, success: false, error}.
GenThrows(c, i) ==
  /\ calls[c].kind = "gen"
  /\ i \in DOMAIN calls[c].run
  /\ calls[c].run[i].st \in InFlightStates
  /\ calls' = GenMove(c, i, [calls[c].run[i] EXCEPT !.st = "failed",
                               !.failedAt = calls[c].run[i].st])
  /\ UNCHANGED <<ledger, now, jobs>>

\* results with the outcomes listed in the reverse of the order of the
\* page ids they are put beside.
resultsReversed(c) ==
  LET n == Len(calls[c].found)
  IN [i \in DOMAIN calls[c].found |->
        [pageId |-> calls[c].found[i].id,
         success |-> calls[c].run[n + 1 - i].st = "ok",
         audioId |-> calls[c].run[n + 1 - i].audioId,
         fileName |-> IF calls[c].run[n + 1 - i].st = "ok"
                      THEN calls[c].run[n + 1 - i].fileName ELSE <<>>]]

\* The list a returned call resolves to, one entry per page found:
\* {pageId, success: true, audioFile} with the row the job inserted, or
\* {pageId, success: false, error}.
results(c) ==
  [i \in DOMAIN calls[c].found |->
     [pageId |-> calls[c].found[i].id,
      success |-> calls[c].run[i].st = "ok",
      audioId |-> calls[c].run[i].audioId,
      fileName |-> IF calls[c].run[i].st = "ok"
                   THEN calls[c].run[i].fileName ELSE <<>>]]

GenStarts ==
  \E c \in CallIds, d \in DocIdInputs, ids \in SUBSET PageIdInputs :
    \/ GenLoad(c, d, ids)
    \/ GenLoadFail(c, d, ids)

GenSteps ==
  \E c \in CallIds, i \in 1..(MaxPages + 1) :
    \/ \E t \in 0..MaxClock : GenSynth(c, i, t)
    \/ GenStore(c, i)
    \/ GenInsert(c, i)
    \/ GenThrows(c, i)

\* ------------------- documentRouter.generateAudioBook, dispatching variant
\* The handler hands each page to generateAudioTask and returns the run ids.
\* retries.default.maxAttempts set one too high.
maxAttemptsOneMore == 3 + 1

maxAttempts == 3

\* The request arrives, findMany resolves and the job of every page found is
\* started, each up to its call of generateAudioTask.trigger.
TrigLoad(c, documentId, pageIds) ==
  /\ CanStart(c)
  /\ LET found == pagesToRegenerate(documentId, pageIds)
         run == [i \in DOMAIN found |-> [st |-> "trigger", runId |-> 0]]
     IN calls' = [calls EXCEPT ![c] =
          [kind |-> "trig", documentId |-> documentId, pageIds |-> pageIds,
           pc |-> IF run = <<>> THEN "returned" ELSE "running",
           found |-> found, run |-> run, cancelled |-> FALSE]]
  /\ UNCHANGED <<ledger, now, jobs>>

\* The call with dispatch i moved on by `r`: the Promise.all fulfils once
\* every dispatch has returned or been caught.
TrigMove(c, i, r) ==
  LET run == [calls[c].run EXCEPT ![i] = r]
  IN [calls EXCEPT ![c].run = run,
        ![c].pc = IF \A j \in DOMAIN run : run[j].st \in {"ok", "failed"}
                  THEN "returned" ELSE "running"]

TrigAt(c, i, st) ==
  /\ calls[c].kind = "trig"
  /\ i \in DOMAIN calls[c].run
  /\ calls[c].run[i].st = st

\* generateAudioTask.trigger resolves with a handle: a run now exists and is
\* queued.  The job then asks runs.retrieve for it.
TrigTrigger(c, i) ==
  /\ TrigAt(c, i, "trigger")
  /\ jobs' = Append(jobs,
       [call |-> c, documentId |-> calls[c].documentId,
        page |-> calls[c].found[i], status |-> "pending", attempt |-> 0, step |-> "none",
        fileName |-> <<>>])
  /\ calls' = TrigMove(c, i, [st |-> "retrieve", runId |-> Len(jobs) + 1])
  /\ UNCHANGED <<ledger, now>>

\* runs.retrieve resolves (the run it returns is not looked at); the job
\* returns {pageId, success: true, runId}.
TrigRetrieve(c, i) ==
  /\ TrigAt(c, i, "retrieve")
  /\ calls' = TrigMove(c, i, [calls[c].run[i] EXCEPT !.st = "ok"])
  /\ UNCHANGED <<ledger, now, jobs>>

\* trigger or retrieve throws: the catch returns {pageId, success: false}.
\* A run that was triggered stays queued.
TrigThrows(c, i) ==
  /\ calls[c].kind = "trig"
  /\ i \in DOMAIN calls[c].run
  /\ calls[c].run[i].st \in {"trigger", "retrieve"}
  /\ calls' = TrigMove(c, i, [calls[c].run[i] EXCEPT !.st = "failed"])
  /\ UNCHANGED <<ledger, now, jobs>>

\* The caller cancels the batch while the handler is at work.  The handler
\* takes no signal and has no cancel procedure: nothing of it changes but
\* the fact that the caller has cancelled.
TrigCancel(c) ==
  /\ calls[c].kind = "trig" /\ calls[c].pc = "running"
  /\ ~calls[c].cancelled
  /\ calls' = [calls EXCEPT ![c].cancelled = TRUE]
  /\ UNCHANGED <<ledger, now, jobs>>

\* getJobStatus(runId): runs.retrieve of a run.
getJobStatus(runId) == jobs[runId].status

TrigStarts ==
  \E c \in 1..MaxTrigCalls, d \in DocIdInputs, ids \in SUBSET PageIdInputs :
    TrigLoad(c, d, ids)

TrigSteps ==
  \E c \in 1..MaxTrigCalls :
    \/ \E i \in 1..(MaxPages + 1) :
         \/ TrigTrigger(c, i)
         \/ TrigRetrieve(c, i)
         \/ TrigThrows(c, i)
    \/ TrigCancel(c)

\* ----------------------------------------- generateAudioTask (PageJobRunner)
\* Pending -> Running -> {Succeeded, Failed}; an attempt is synthesis, then
\* upload, then the ledger insert.
JobAt(r, step) ==
  /\ r \in DOMAIN jobs
  /\ jobs[r].status = "running"
  /\ jobs[r].step = step

\* The executor picks the queued run up: the first attempt begins.
JobStart(r) ==
  /\ r \in DOMAIN jobs
  /\ jobs[r].status = "pending"
  /\ jobs[r].page.content # ""
  /\ jobs' = [jobs EXCEPT ![r].status = "running", ![r].attempt = 1,
                          ![r].step = "synth"]
  /\ UNCHANGED <<ledger, now, calls>>

\* Empty text is InvalidInput: the run fails before any synthesis.
JobInvalidInput(r) ==
  /\ r \in DOMAIN jobs
  /\ jobs[r].status = "pending"
  /\ jobs[r].page.content = ""
  /\ jobs' = [jobs EXCEPT ![r].status = "failed"]
  /\ UNCHANGED <<ledger, now, calls>>

JobSynth(r, t) ==
  /\ JobAt(r, "synth")
  /\ ClockReads(t)
  /\ jobs' = [jobs EXCEPT ![r].step = "store",
                          ![r].fileName = FileName(jobs[r].page, t)]
  /\ now' = t
  /\ UNCHANGED <<ledger, calls>>

JobStore(r) ==
  /\ JobAt(r, "store")
  /\ LET key == jobs[r].fileName
     IN objects' = {o \in objects : o.key # key} \cup
                   {[key |-> key, by |-> <<0, jobs[r].page.id>>]}
  /\ jobs' = [jobs EXCEPT ![r].step = "insert"]
  /\ UNCHANGED <<documents, pages, audioFiles, nextId, now, calls>>

JobInsert(r) ==
  /\ JobAt(r, "insert")
  /\ audioFiles' = audioFiles \cup
       {[id |-> nextId.audio, pageId |-> jobs[r].page.id,
         fileName |-> jobs[r].fileName]}
  /\ nextId' = [nextId EXCEPT !.audio = nextId.audio + 1]
  /\ jobs' = [jobs EXCEPT ![r].status = "succeeded", ![r].step = "none"]
  /\ UNCHANGED <<documents, pages, objects, now, calls>>

\* The step of the attempt fails: the attempt is abandoned, and retried
\* while attempts remain (retries.default.maxAttempts).
JobAttemptFails(r) ==
  /\ r \in DOMAIN jobs
  /\ jobs[r].status = "running"
  /\ jobs' = IF jobs[r].attempt < maxAttempts
             THEN [jobs EXCEPT ![r].attempt = jobs[r].attempt + 1,
                               ![r].step = "synth"]
             ELSE [jobs EXCEPT ![r].status = "failed", ![r].step = "none"]
  /\ UNCHANGED <<ledger, now, calls>>

JobSteps ==
  \E r \in 1..(MaxTrigCalls * (MaxPages + 1)) :
    \/ JobStart(r)
    \/ JobInvalidInput(r)
    \/ \E t \in 0..MaxClock : JobSynth(r, t)
    \/ JobStore(r)
    \/ JobInsert(r)
    \/ JobAttemptFails(r)

\* -------------------------------------------------------------------- getAll
\* orderBy asc(documents.createdAt): oldest first.
RECURSIVE SortOldestFirst(_)
SortOldestFirst(S) ==
  IF S = {} THEN <<>>
  ELSE LET m == CHOOSE x \in S : \A y \in S : x.createdAt <= y.createdAt
       IN <<m>> \o SortOldestFirst(S \ {m})

\* orderBy desc(documents.createdAt).  Rows of equal createdAt come in an
\* order the database chooses.
RECURSIVE SortNewestFirst(_)
SortNewestFirst(S) ==
  IF S = {} THEN <<>>
  ELSE LET m == CHOOSE x \in S : \A y \in S : x.createdAt >= y.createdAt
       IN <<m>> \o SortNewestFirst(S \ {m})

\* with: {pages: {with: {audioFiles: true}}}: the document row with its
\* page rows, each page row with its audio file rows.
WithPages(d) ==
  [id |-> d.id, createdById |-> d.createdById, createdAt |-> d.createdAt,
   pages |-> {[id |-> p.id, documentId |-> p.documentId,
               pageNumber |-> p.pageNumber, content |-> p.content,
               audioFiles |-> {a \in audioFiles : a.pageId = p.id}] :
                p \in {q \in pages : q.documentId = d.id}}]

\* getAll for the session user `user`.
getAll(user) ==
  LET documentsResult ==
        SortNewestFirst({d \in documents : d.createdById = user})
  IN [i \in 1..Len(documentsResult) |-> WithPages(documentsResult[i])]

\* ------------------------------------------------------------ specifications
Starts == CreateStarts \/ DeleteStarts \/ GenStarts

Steps == CreateSteps \/ DeleteSteps \/ GenSteps

Next == Starts \/ Steps

\* Concurrent create, delete and in-process generateAudioBook calls.
Spec == Init /\ [][Next]_vars

\* The same calls from the empty ledger alone.
SpecFromEmpty == (EmptyLedger /\ NoCalls) /\ [][Next]_vars

\* The rows of SeededLedger.
SeedReached ==
  /\ documents = {[id |-> 1, createdById |-> "u1", createdAt |-> 0]}
  /\ pages = {[id |-> i, documentId |-> 1, pageNumber |-> i,
               content |-> Pdf(2)[i]] : i \in 1..2}
  /\ audioFiles = {[id |-> 1, pageId |-> 1, fileName |-> <<1, 1, 0>>]}
  /\ {o.key : o \in objects} = {<<1, 1, 0>>}
  /\ nextId = [doc |-> 2, page |-> 3, audio |-> 2]

\* A call is over: it returned or threw, and nothing it started is pending.
Settled(c) ==
  \/ calls[c].kind = "idle"
  \/ /\ calls[c].kind = "create"
     /\ calls[c].pc \in {"returned", "failed"}
     /\ \A i \in DOMAIN calls[c].ins : calls[c].ins[i] # "pending"
  \/ /\ calls[c].kind \in {"delete", "gen", "trig"}
     /\ calls[c].pc \in {"returned", "failed"}

Quiescent == \A c \in CallIds : Settled(c)

NextSerial == (Quiescent /\ Starts) \/ Steps

\* The same calls made one after the other (a single client awaiting each).
SpecSerial == Init /\ [][NextSerial]_vars

\* The pool size the design asks for: at most 8 jobs in flight.
PoolSize == 8

\* A document of one page more than the pool holds.
PoolPages == PoolSize + 1

InitPool ==
  /\ documents = {[id |-> 1, createdById |-> "u1", createdAt |-> 0]}
  /\ pages = {[id |-> i, documentId |-> 1, pageNumber |-> i,
               content |-> "text"] : i \in 1..PoolPages}
  /\ audioFiles = {}
  /\ objects = {}
  /\ nextId = [doc |-> 2, page |-> PoolPages + 1, audio |-> 1]
  /\ NoCalls

NextPool ==
  \/ \E n \in 0..PoolPages : GenLoad(1, 1, 1..n)
  \/ \E i \in 1..PoolPages : GenThrows(1, i)

\* One generateAudioBook call for the first n pages of that document, against
\* a synthesis service that refuses every request.
SpecPool == InitPool /\ [][NextPool]_vars

InitTrig == SeededLedger /\ NoCalls

NextTrig == TrigStarts \/ TrigSteps \/ JobSteps

\* generateAudioBook calls that dispatch to generateAudioTask, and its runs.
SpecTrig == InitTrig /\ [][NextTrig]_vars

\* The executor leaves no run waiting for ever: a queued run is picked up,
\* and an attempt under way comes to its success or its failure.
SpecTrigFair == SpecTrig /\ WF_vars(JobSteps)

\* The run ids a behaviour can use.
RunIds == 1..(MaxTrigCalls * (MaxPages + 1))

\* ------------------------------------------------------------------- claims
HasDocument(id) == \E d \in documents : d.id = id

PagesOf(id) == {p \in pages : p.documentId = id}

IsGen(c) == calls[c].kind = "gen"

\* The jobs of a batch that neither returned nor threw.
InFlight(c) ==
  Cardinality({i \in DOMAIN calls[c].run :
                 calls[c].run[i].st \in InFlightStates})

\* C1: once a create call has returned or thrown, either the document row
\* and a page row for each of the N extracted pages exist, or neither the
\* document row nor any page row of it exists.
C1_CreateAllOrNothing ==
  \A c \in CallIds :
    (calls[c].kind = "create" /\ calls[c].pc \in {"returned", "failed"}) =>
      LET id == calls[c].docId
          n == Len(calls[c].pdfPages)
      IN \/ /\ HasDocument(id)
            /\ {p.pageNumber : p \in PagesOf(id)} = 1..n
            /\ Cardinality(PagesOf(id)) = n
         \/ /\ ~HasDocument(id)
            /\ PagesOf(id) = {}

\* C2: the list a generateAudioBook call returns has exactly one entry for
\* every page id of the request, existing in the ledger or not.
C2_ResultPerRequestedPage ==
  \A c \in CallIds :
    (IsGen(c) /\ calls[c].pc = "returned") =>
      /\ {results(c)[i].pageId : i \in DOMAIN results(c)} = calls[c].pageIds
      /\ Len(results(c)) = Cardinality(calls[c].pageIds)

\* A step of batch c: no audio file row is removed, and when the step is
\* the failure of job i, every other job of the batch is where it was and
\* the ledger and the object store are as they were.
C3_StepIsolated ==
  \A c \in CallIds :
    (IsGen(c) /\ calls'[c] # calls[c]) =>
      /\ audioFiles \subseteq audioFiles'
      /\ \A i \in DOMAIN calls[c].run :
           (calls[c].run[i].st # "failed" /\ calls'[c].run[i].st = "failed") =>
             /\ \A j \in DOMAIN calls[c].run \ {i} :
                  calls'[c].run[j] = calls[c].run[j]
             /\ audioFiles' = audioFiles
             /\ objects' = objects

\* A returned batch has brought every job to its own outcome.
C3_AllTerminal ==
  \A c \in CallIds :
    (IsGen(c) /\ calls[c].pc = "returned") =>
      \A i \in DOMAIN calls[c].run : calls[c].run[i].st \in {"ok", "failed"}

\* C3: in a generateAudioBook batch the failure of one page (at synthesis,
\* upload or insert) neither aborts nor rolls back another page: the other
\* jobs are untouched by it, no step of the batch removes an audio file row,
\* and the batch returns only when every job has reached its own outcome.
C3_FailureIsolated == [][C3_StepIsolated]_vars /\ []C3_AllTerminal

\* A returned batch in which one page failed and another succeeded, the row
\* of the latter in the ledger.
C3_Witness ==
  \E c \in CallIds :
    /\ IsGen(c) /\ calls[c].pc = "returned"
    /\ \E i, j \in DOMAIN calls[c].run :
         /\ calls[c].run[i].st = "failed"
         /\ calls[c].run[j].st = "ok"
         /\ \E a \in audioFiles : a.id = calls[c].run[j].audioId

C4_Step ==
  LET new == audioFiles' \ audioFiles
  IN /\ \A c \in CallIds :
          IsGen(c) =>
            \A i \in DOMAIN calls[c].run :
              LET r == calls[c].run[i]
                  r2 == calls'[c].run[i]
              IN /\ r.st \in {"ok", "failed"} => r2 = r
                 /\ (r.st # "ok" /\ r2.st = "ok") =>
                      /\ Cardinality(new) = 1
                      /\ \A a \in new : /\ a.pageId = calls[c].found[i].id
                                        /\ a.id = r2.audioId
                 /\ (r2.st # r.st /\ r2.st # "ok") => new = {}
     /\ new # {} =>
          \E c \in CallIds :
            /\ IsGen(c)
            /\ \E i \in DOMAIN calls[c].run :
                 calls[c].run[i].st # "ok" /\ calls'[c].run[i].st = "ok"

\* C4: the ledger gains an audio file row in a generateAudioBook call if and
\* only if a page of it turns succeeded: the step that reports a page
\* succeeded adds exactly one row, which references that page; every other
\* step of a job adds none; a job that has ended never moves again; and no
\* row appears without a page turning succeeded.
C4_RowIffSucceeded == [][C4_Step]_vars

\* A batch with a page reported failed at its insert and a page reported
\* succeeded whose row carries the file name the job uploaded.
C4_Witness ==
  \E c \in CallIds :
    /\ IsGen(c)
    /\ \E i, j \in DOMAIN calls[c].run :
         /\ calls[c].run[i].st = "failed"
         /\ calls[c].run[i].failedAt = "insert"
         /\ ~\E a \in audioFiles : a.fileName = calls[c].run[i].fileName
         /\ calls[c].run[j].st = "ok"
         /\ \E a \in audioFiles :
              /\ a.id = calls[c].run[j].audioId
              /\ a.pageId = calls[c].found[j].id
              /\ a.fileName = calls[c].run[j].fileName

\* C5: at every point of a delete call the document row is not absent while
\* a page row of the document remains, and no page row the call found is
\* absent while an audio file row referencing it remains.
C5_CascadeOrder ==
  \A c \in CallIds :
    calls[c].kind = "delete" =>
      /\ ~HasDocument(calls[c].id) => PagesOf(calls[c].id) = {}
      /\ \A pid \in calls[c].assoc :
           (~\E p \in pages : p.id = pid) =>
             ~\E a \in audioFiles : a.pageId = pid

\* A delete that has removed audio file rows and page rows and is about to
\* remove the document row.
C5_Witness ==
  \E c \in CallIds :
    /\ calls[c].kind = "delete" /\ calls[c].pc = "doc"
    /\ calls[c].deletedAudioFiles.rowCount >= 1
    /\ calls[c].deletedPages.rowCount >= 2
    /\ HasDocument(calls[c].id)

\* A delete step ran and removed no row.
ZeroRows(res) == res.type = "object" /\ res.rowCount = 0

\* C6: when a delete step removes zero rows although findFirst had shown
\* rows for it (audio files, pages, the document), the call fails and the
\* steps after it do not run.
C6_ZeroRowsFails ==
  \A c \in CallIds :
    calls[c].kind = "delete" =>
      /\ (ZeroRows(calls[c].deletedAudioFiles) /\ calls[c].seenAudio # {}) =>
           /\ calls[c].pc = "failed"
           /\ calls[c].deletedPages = NotRun
           /\ calls[c].deletedDocument = NotRun
      /\ (ZeroRows(calls[c].deletedPages) /\ calls[c].assoc # {}) =>
           /\ calls[c].pc = "failed"
           /\ calls[c].deletedDocument = NotRun
      /\ (ZeroRows(calls[c].deletedDocument) /\ calls[c].found) =>
           calls[c].pc = "failed"

\* C7: the jobs of a batch in flight at once never exceed the pool size.
C7_BoundedInFlight ==
  \A c \in CallIds : IsGen(c) => InFlight(c) <= PoolSize

\* C8: a job is started, and an audio file row created, only for a page
\* whose documentId is the documentId of the request.
C8_OnlyPagesOfDocument ==
  \A c \in CallIds :
    IsGen(c) =>
      \A i \in DOMAIN calls[c].run :
        calls[c].found[i].documentId = calls[c].documentId

\* C9: a generateAudioBook call has returned only if every run it launched
\* is Succeeded or Failed; no page is reported succeeded while its run is
\* pending or running.
C9_ReturnsAfterTerminal ==
  \A c \in CallIds :
    (calls[c].kind = "trig" /\ calls[c].pc = "returned") =>
      \A i \in DOMAIN calls[c].run :
        calls[c].run[i].st = "ok" =>
          getJobStatus(calls[c].run[i].runId) \in {"succeeded", "failed"}

\* C10: a synthesis or upload failure ends a page job as Failed only when
\* the retry budget is spent; with attempts left the job tries again (and so
\* reaches Succeeded once an attempt succeeds).
C10_FailedOnlyAfterBudget ==
  \A c \in CallIds :
    IsGen(c) =>
      \A i \in DOMAIN calls[c].run :
        (calls[c].run[i].st = "failed"
           /\ calls[c].run[i].failedAt \in {"synth", "store"}) =>
          calls[c].run[i].attempt >= maxAttempts

\* A run that has ended Failed is not attempted again.
C11_FailedIsFinal ==
  \A r \in DOMAIN jobs : jobs[r].status = "failed" => jobs'[r] = jobs[r]

C12_EmptyTextFailsAtOnce ==
  \A c \in CallIds :
    IsGen(c) =>
      \A i \in DOMAIN calls[c].run :
        calls[c].found[i].content = "" =>
          /\ calls[c].run[i].attempt = 0
          /\ calls[c].run[i].st = "failed"
          /\ calls[c].run[i].fileName = <<>>

\* The step on which create call c returns.
CreateReturns(c) ==
  /\ calls'[c].kind = "create" /\ calls'[c].pc = "returned"
  /\ calls[c] # calls'[c]

C13_Step ==
  \A c \in CallIds :
    CreateReturns(c) =>
      LET N == Len(calls'[c].pdfPages)
          rows == {p \in pages' : p.documentId = calls'[c].docId}
      IN /\ Cardinality(rows) = N
         /\ {p.pageNumber : p \in rows} = 1..N
         /\ \A p \in rows :
              p.content = calls'[c].pdfPages[p.pageNumber].content

\* C13: when a create call for N extracted pages returns, the page rows of
\* its document are N rows numbered exactly 1..N, each number once, and the
\* row numbered k holds the text of the k-th extracted page, whatever the
\* order in which the page inserts completed.
C13_PagesNumberedInOrder == [][C13_Step]_vars

\* A create call returned for two pages whose inserts completed in the
\* reverse of the extraction order.
C13_Witness ==
  \E c \in CallIds :
    /\ calls[c].kind = "create" /\ calls[c].pc = "returned"
    /\ Len(calls[c].pdfPages) = 2
    /\ \E p, q \in pages :
         /\ p.documentId = calls[c].docId /\ q.documentId = calls[c].docId
         /\ p.pageNumber = 1 /\ q.pageNumber = 2
         /\ q.id < p.id

\* C14: a create call whose extraction yields zero pages does not return
\* success and leaves no document row of its own in the ledger.
C14_ZeroPagesFails ==
  \A c \in CallIds :
    (calls[c].kind = "create" /\ Len(calls[c].pdfPages) = 0) =>
      /\ calls[c].pc # "returned"
      /\ ~HasDocument(calls[c].docId)

\* The step on which delete call c returns success.
DeleteReturns(c) ==
  /\ calls'[c].kind = "delete" /\ calls'[c].pc = "returned"
  /\ calls[c] # calls'[c]

C15_Step ==
  \A c \in CallIds :
    DeleteReturns(c) =>
      /\ ~HasDocument(calls[c].id)'
      /\ PagesOf(calls[c].id)' = {}
      /\ ~\E a \in audioFiles' : a.pageId \in calls[c].assoc
      /\ \A u \in Users :
           \A i \in DOMAIN getAll(u)' : getAll(u)'[i].id # calls[c].id

\* C15: when a delete call returns success, the ledger holds no document
\* row with its id, no page row of that document and no audio file row of
\* a page the document had, and no user's getAll lists the id.
C15_DeleteRemovesAll == [][C15_Step]_vars

\* A delete returned after removing a document that had pages and an audio
\* file.
C15_Witness ==
  \E c \in CallIds :
    /\ calls[c].kind = "delete" /\ calls[c].pc = "returned"
    /\ calls[c].found
    /\ calls[c].deletedAudioFiles.rowCount >= 1
    /\ calls[c].deletedPages.rowCount >= 2
    /\ calls[c].deletedDocument.rowCount = 1

\* C16: getAll(user) lists exactly the documents created by `user`, each
\* once, newest createdAt first, each with exactly its page rows and each
\* page with exactly its audio file rows.
C16_GetAllOwnNewestFirst ==
  \A u \in Users :
    LET r == getAll(u)
    IN /\ {r[i].id : i \in DOMAIN r} =
            {d.id : d \in {e \in documents : e.createdById = u}}
       /\ \A i, j \in DOMAIN r :
            /\ i < j => r[i].createdAt >= r[j].createdAt
            /\ i # j => r[i].id # r[j].id
       /\ \A i \in DOMAIN r :
            /\ r[i].createdById = u
            /\ {p.id : p \in r[i].pages} = {p.id : p \in PagesOf(r[i].id)}
            /\ \A p \in r[i].pages :
                 {a.id : a \in p.audioFiles} =
                   {a.id : a \in {b \in audioFiles : b.pageId = p.id}}

\* One user has an older document with a page and an audio file and a newer
\* document, and the other user has a document too.
C16_Witness ==
  \E d, e, f \in documents :
    /\ d.createdById = e.createdById /\ d.createdAt < e.createdAt
    /\ f.createdById # d.createdById
    /\ \E p \in pages : p.documentId = d.id
                         /\ \E a \in audioFiles : a.pageId = p.id

\* A step of generateAudioBook call c.
GenActs(c) == calls'[c].kind = "gen" /\ calls[c] # calls'[c]

C17_Step ==
  \A c \in CallIds :
    GenActs(c) =>
      /\ documents' = documents
      /\ pages' = pages
      /\ audioFiles \subseteq audioFiles'
      /\ \A a \in audioFiles' \ audioFiles : a.pageId \in calls'[c].pageIds

\* C17: a step of a generateAudioBook call changes no document row and no
\* page row, removes or changes no audio file row that exists, and adds
\* audio file rows only for pages whose id is in the call's pageIds.
C17_UnlistedUntouched == [][C17_Step]_vars

\* A call has inserted a row for a listed page, and its document has an
\* unlisted page that has no audio file.
C17_Witness ==
  \E c \in CallIds :
    /\ IsGen(c)
    /\ \E i \in DOMAIN calls[c].run : calls[c].run[i].st = "ok"
    /\ \E p \in PagesOf(calls[c].documentId) :
         /\ p.id \notin calls[c].pageIds
         /\ ~\E a \in audioFiles : a.pageId = p.id

\* A step keeps to the cancellation of batch c: it launches no run of c and
\* starts none that was waiting.
C18_Step ==
  \A c \in CallIds :
    (calls[c].kind = "trig" /\ calls[c].cancelled) =>
      \A r \in DOMAIN jobs' :
        jobs'[r].call = c =>
          /\ r \in DOMAIN jobs
          /\ jobs[r].status = "pending" => jobs'[r].status # "running"

\* C18: once the caller has cancelled a batch, no further run of the batch
\* is launched and no run of it that waits to start begins an attempt.
C18_CancelStopsUnstarted == [][C18_Step]_vars

\* Page job i of call c has uploaded its artifact.
Uploaded(c, i) ==
  \/ calls[c].run[i].st \in {"insert", "ok"}
  \/ calls[c].run[i].st = "failed" /\ calls[c].run[i].failedAt = "insert"

\* C19: no two page jobs have uploaded under the same artifact key.
C19_KeysUnique ==
  \A c, d \in CallIds :
    (IsGen(c) /\ IsGen(d)) =>
      \A i \in DOMAIN calls[c].run, j \in DOMAIN calls[d].run :
        (<<c, i>> # <<d, j>> /\ Uploaded(c, i) /\ Uploaded(d, j)) =>
          calls[c].run[i].fileName # calls[d].run[j].fileName

\* C20: with generateAudioBook and delete calls interleaved (and no create
\* at work), every audio file row names a page row that exists and every
\* page row names a document row that exists.
C20_NoOrphans ==
  (\A c \in CallIds : calls[c].kind \in {"idle", "gen", "delete"}) =>
    /\ \A a \in audioFiles : \E p \in pages : p.id = a.pageId
    /\ \A p \in pages : HasDocument(p.documentId)

\* Page jobs i of call c and j of call d are of the same page and both
\* succeeded.
BothSucceeded(c, i, d, j) ==
  /\ c # d /\ IsGen(c) /\ IsGen(d)
  /\ i \in DOMAIN calls[c].run /\ j \in DOMAIN calls[d].run
  /\ calls[c].found[i].id = calls[d].found[j].id
  /\ calls[c].run[i].st = "ok" /\ calls[d].run[j].st = "ok"

\* Each of two succeeded jobs of one page has its own row in the ledger.
C21_BothRows ==
  \A c, d \in CallIds : \A i, j \in 1..(MaxPages + 1) :
    BothSucceeded(c, i, d, j) =>
      /\ calls[c].run[i].audioId # calls[d].run[j].audioId
      /\ \E a, b \in audioFiles :
           /\ a.id = calls[c].run[i].audioId /\ b.id = calls[d].run[j].audioId
           /\ a.pageId = calls[c].found[i].id /\ b.pageId = a.pageId
           /\ a.fileName = calls[c].run[i].fileName
           /\ b.fileName = calls[d].run[j].fileName

\* A step of a generateAudioBook call keeps every audio file row.
C21_Step ==
  \A c \in CallIds : GenActs(c) => audioFiles \subseteq audioFiles'

\* C21: when two generateAudioBook calls in flight together both succeed for
\* the same page, the ledger holds a row of each, neither replaced by the
\* other, and no step of a generation removes a row the page already had.
C21_TwoRowsKept == []C21_BothRows /\ [][C21_Step]_vars

\* Two calls in flight together have both succeeded for one page that had
\* an audio file before: the page has three rows.
C21_Witness ==
  \E c, d \in CallIds : \E i, j \in 1..(MaxPages + 1) :
    /\ BothSucceeded(c, i, d, j)
    /\ Cardinality({a \in audioFiles :
                      a.pageId = calls[c].found[i].id}) = 3

\* One job per page found, each of a listed page, each launched once; a
\* returned call reports a failed job as failed.
C22_OneRunner ==
  \A c \in CallIds :
    IsGen(c) =>
      /\ DOMAIN calls[c].run = DOMAIN calls[c].found
      /\ \A i, j \in DOMAIN calls[c].run :
           i # j => calls[c].found[i].id # calls[c].found[j].id
      /\ \A i \in DOMAIN calls[c].run :
           /\ calls[c].found[i].id \in calls[c].pageIds
           /\ calls[c].run[i].attempt = 1
           /\ (calls[c].pc = "returned" /\ calls[c].run[i].st = "failed") =>
                ~results(c)[i].success

\* A failed job is left as it is, and the step on which a job fails
\* leaves the other jobs of the batch where they were.
C22_Step ==
  \A c \in CallIds :
    (IsGen(c) /\ calls'[c].kind = "gen") =>
      \A i \in DOMAIN calls[c].run :
        /\ calls[c].run[i].st = "failed" => calls'[c].run[i] = calls[c].run[i]
        /\ (calls[c].run[i].st # "failed" /\ calls'[c].run[i].st = "failed") =>
             \A j \in DOMAIN calls[c].run \ {i} :
               calls'[c].run[j].st = calls[c].run[j].st

\* C22: a generateAudioBook call launches one job for each listed page it
\* found and launches none again: a failed job stays failed and is
\* reported failed, and the other jobs of the batch go on.
C22_NoRelaunch == []C22_OneRunner /\ [][C22_Step]_vars

\* One job of a batch failed at synthesis; another job of it, still in
\* flight then, has since succeeded.
C22_Witness ==
  \E c \in CallIds :
    /\ IsGen(c) /\ calls[c].pc = "returned"
    /\ \E i, j \in DOMAIN calls[c].run :
         /\ calls[c].run[i].st = "failed"
         /\ calls[c].run[i].failedAt = "synth"
         /\ ~results(c)[i].success
         /\ calls[c].run[j].st = "ok" /\ results(c)[j].success

\* The page row of id `id` as call c loaded it.
LoadedPage(c, id) ==
  CHOOSE p \in {calls[c].found[i] : i \in DOMAIN calls[c].found} : p.id = id

\* C23: in the result list of a returned generateAudioBook call no two
\* entries carry the same page id, and each entry is about the page whose
\* id it carries: it reports success exactly if that page's job succeeded,
\* the audio file it names is a row of that page under a file name built
\* from that page's document and number, and a failure names no audio file.
C23_ResultsKeyedByPage ==
  \A c \in CallIds :
    (IsGen(c) /\ calls[c].pc = "returned") =>
      LET res == results(c)
      IN \A i \in DOMAIN res :
           /\ \A j \in DOMAIN res : i # j => res[i].pageId # res[j].pageId
           /\ \E k \in DOMAIN calls[c].found :
                /\ calls[c].found[k].id = res[i].pageId
                /\ res[i].success = (calls[c].run[k].st = "ok")
           /\ res[i].success =>
                /\ \A a \in audioFiles :
                     a.id = res[i].audioId =>
                       a.pageId = res[i].pageId /\ a.fileName = res[i].fileName
                /\ res[i].fileName[1] = LoadedPage(c, res[i].pageId).documentId
                /\ res[i].fileName[2] = LoadedPage(c, res[i].pageId).pageNumber
           /\ ~res[i].success =>
                res[i].audioId = 0 /\ res[i].fileName = <<>>

\* A returned batch of two pages: the first entry reports a failure, the
\* second a success whose row is in the ledger.
C23_Witness ==
  \E c \in CallIds :
    /\ IsGen(c) /\ calls[c].pc = "returned"
    /\ Len(results(c)) = 2
    /\ ~results(c)[1].success
    /\ results(c)[2].success
    /\ \E a \in audioFiles : /\ a.id = results(c)[2].audioId
                              /\ a.pageId = results(c)[2].pageId

\* A step of delete call c.
DeleteActs(c) == calls'[c].kind = "delete" /\ calls[c] # calls'[c]

\* The users who created the document of id `id`.
OwnersOf(id) == {d.createdById : d \in {e \in documents : e.id = id}}

C24_Step ==
  \A c \in CallIds :
    DeleteActs(c) =>
      /\ \A d \in documents \ documents' : d.createdById = calls'[c].user
      /\ \A p \in pages \ pages' :
           OwnersOf(p.documentId) \subseteq {calls'[c].user}
      /\ \A a \in audioFiles \ audioFiles' :
           \A p \in pages :
             p.id = a.pageId =>
               OwnersOf(p.documentId) \subseteq {calls'[c].user}

\* C24: a step of a delete call removes no document row created by a user
\* other than the caller, and no page row or audio file row of such a
\* document.
C24_DeleteOwnOnly == [][C24_Step]_vars

\* A step of a delete of document D adds and changes no row, and removes
\* only the document row D, page rows of D and audio file rows of pages of
\* D; when the call found no document row and D has no page row, the step
\* leaves the ledger as it was.
C25_Step ==
  \A c \in CallIds :
    DeleteActs(c) =>
      LET D == calls'[c].id
      IN /\ documents' \subseteq documents
         /\ pages' \subseteq pages
         /\ audioFiles' \subseteq audioFiles
         /\ objects' = objects
         /\ \A d \in documents \ documents' : d.id = D
         /\ \A p \in pages \ pages' : p.documentId = D
         /\ \A a \in audioFiles \ audioFiles' :
              \A p \in pages : p.id = a.pageId => p.documentId = D
         /\ (~calls'[c].found /\ ~HasDocument(D) /\ PagesOf(D) = {}) =>
              ledger' = ledger

\* C25: a delete of document D removes no row of another document, and a
\* delete of an id that has no document row (never created, or deleted
\* before) and no page row changes nothing in the ledger.
C25_DeleteFrame == [][C25_Step]_vars

\* A delete has removed the audio files and pages of its document while
\* another document has a page with an audio file.
C25_Witness ==
  \E c \in CallIds :
    /\ calls[c].kind = "delete" /\ calls[c].pc \in {"doc", "returned"}
    /\ calls[c].deletedAudioFiles.type = "object"
    /\ calls[c].deletedPages.rowCount >= 1
    /\ \E p \in pages :
         /\ p.documentId # calls[c].id
         /\ \E a \in audioFiles : a.pageId = p.id
====
